---- MODULE Spec2Model ----
(***************************************************************************)
(* A model of the squarish library (src/squarish/squarish.py and           *)
(* src/squarish/arbitrary_ratios.py): the memoized factor-pair search      *)
(* squarish_factors, the scorer squareness, the predicates built on them,  *)
(* and the selectors squarest_of / squarest_total / fittest_total.         *)
(*                                                                         *)
(* The only state of the library is the lru_cache of squarish_factors.     *)
(* A client calls one operation at a time (pc = "idle" -> "returned"),     *)
(* the call's arguments and outcome are recorded in ret, and the client    *)
(* then goes back to idle (Return) with the cache as the call left it.     *)
(* A call is made only from idle: the library is synchronous.              *)
(*                                                                         *)
(* Numbers.  math.sqrt is modelled by the integer square root: for the     *)
(* integers of this model int(math.sqrt(x)) and math.floor(math.sqrt(x))   *)
(* are both Isqrt(x), and math.sqrt(x) is an integer value exactly when    *)
(* Isqrt(x)^2 = x.  This is exact in binary64 for arguments below 2^52;    *)
(* beyond, rounding makes math.sqrt of a non-square an integer value, as   *)
(* for x = 10^16 + 1, which no argument of this model reaches.             *)
(* The float (sr/m + n/sr)/2, sr = math.sqrt(x), is the real               *)
(* (x + n*m) / (2*m*sqrt(x)); it is modelled exactly, as the record        *)
(* [num, den, rad] that stands for num / (den * sqrt(rad)).  binary64      *)
(* orders these values as the exact reals do for every pair of arguments   *)
(* below 98 (the first disagreement is 2 against 98), which covers every   *)
(* argument of this model.                                                 *)
(***************************************************************************)
EXTENDS Integers, Sequences, FiniteSets

VARIABLES cache, pc, ret

vars == <<cache, pc, ret>>

----------------------------------------------------------------------------
(* Bounds of the model *)

MaxX == 20
MaxNeg == 2
MaxElem == 8
MaxLen == 2
MaxM == 8
MaxN == 5
MaxR == 2
\* maxsize of the lru_cache (functools' default is 128), scaled down
CacheSize == 2

----------------------------------------------------------------------------
(* Outcomes of a call: a returned value or a raised exception *)

Ok(v) == [tag |-> "ok", val |-> v]

Raise(e) == [tag |-> "err", exc |-> e]

----------------------------------------------------------------------------
(* Arithmetic helpers *)

Isqrt(x) == CHOOSE k \in 0..x : k * k <= x /\ (k + 1) * (k + 1) > x

SetMin(S) == CHOOSE v \in S : \A w \in S : v <= w

SetMax(S) == CHOOSE v \in S : \A w \in S : v >= w

SeqRange(s) == {s[i] : i \in 1..Len(s)}

\* range(a, b): the integers a, a+1, ..., b-1, empty when b <= a
range(a, b) == [i \in 1..(IF b > a THEN b - a ELSE 0) |-> a + i - 1]

----------------------------------------------------------------------------
(* squarish.py *)

\* is_square: math.sqrt raises ValueError for x < 0, which is caught
is_square(x) == IF x < 0 THEN FALSE ELSE Isqrt(x) * Isqrt(x) = x

\* for d in range(mid, 0, -1): if x % d == 0: return int(x/d), d
RECURSIVE scan_off_by_one(_, _)
scan_off_by_one(x, d) ==
    IF d - 1 < 1 THEN Raise("ValueError")
    ELSE IF x % (d - 1) = 0 THEN Ok(<<x \div (d - 1), d - 1>>)
    ELSE scan_off_by_one(x, d - 1)

RECURSIVE scan_swapped(_, _)
scan_swapped(x, d) ==
    IF d < 1 THEN Raise("ValueError")
    ELSE IF x % d = 0 THEN Ok(<<d, x \div d>>)
    ELSE scan_swapped(x, d - 1)

RECURSIVE scan(_, _)
scan(x, d) ==
    IF d < 1 THEN Raise("ValueError")
    ELSE IF x % d = 0 THEN Ok(<<x \div d, d>>)
    ELSE scan(x, d - 1)

\* the body of squarish_factors, without the cache
squarish_factors_wrapped(x) ==
    IF is_square(x) THEN Ok(<<Isqrt(x), Isqrt(x)>>)
    ELSE IF x < 0 THEN Raise("ValueError")
    ELSE scan(x, Isqrt(x))

\* functools.lru_cache(): entries in order of use, least recently used first
cache_index(ch, x) == CHOOSE i \in 1..Len(ch) : ch[i].key = x

cache_has(ch, x) == \E i \in 1..Len(ch) : ch[i].key = x

cache_remove(ch, i) == SubSeq(ch, 1, i - 1) \o SubSeq(ch, i + 1, Len(ch))

cache_insert_stale(ch, x, v) ==
    IF Len(ch) >= CacheSize
    THEN Tail(ch) \o <<[key |-> ch[1].key, val |-> v]>>
    ELSE ch \o <<[key |-> x, val |-> v]>>

cache_insert(ch, x, v) ==
    LET full == Len(ch) >= CacheSize
    IN  (IF full THEN Tail(ch) ELSE ch) \o <<[key |-> x, val |-> v]>>

squarish_factors(ch, x) ==
    IF cache_has(ch, x)
    THEN LET i == cache_index(ch, x)
         IN  [res |-> Ok(ch[i].val),
              cache |-> cache_remove(ch, i) \o <<ch[i]>>,
              hit |-> TRUE, evicted |-> FALSE]
    ELSE LET r == squarish_factors_wrapped(x)
         IN  IF r.tag = "err"
             THEN [res |-> r, cache |-> ch, hit |-> FALSE, evicted |-> FALSE]
             ELSE [res |-> r, cache |-> cache_insert(ch, x, r.val),
                   hit |-> FALSE, evicted |-> Len(ch) >= CacheSize]

\* a real num / (den * sqrt(rad)), with den > 0 and rad > 0
Real(num, den, rad) == [num |-> num, den |-> den, rad |-> rad]

One == Real(1, 1, 1)

Positive(a) == a.num > 0 /\ a.den > 0 /\ a.rad > 0

\* a > b and a = b, for positive a and b (by comparing the squares)
Gt(a, b) == a.num * a.num * b.den * b.den * b.rad > b.num * b.num * a.den * a.den * a.rad

Eq(a, b) == a.num * a.num * b.den * b.den * b.rad = b.num * b.num * a.den * a.den * a.rad

\* (sr/m + n/sr)/2 with sr = math.sqrt(x)
fitness_unhalved(x, m, n) == Real(x + n * m, m, x)

fitness(x, m, n) == Real(x + n * m, 2 * m, x)

squareness(ch, x) ==
    IF x = 0 THEN [res |-> Ok(One), cache |-> ch]
    ELSE IF x < 0 THEN [res |-> Raise("ValueError"), cache |-> ch]
    ELSE LET r == squarish_factors(ch, x)
         IN  IF r.res.tag = "err" THEN [res |-> r.res, cache |-> r.cache]
             ELSE [res |-> Ok(fitness(x, r.res.val[1], r.res.val[2])),
                   cache |-> r.cache]

\* the default threshold 0.75 = ThresholdNum / ThresholdDen
ThresholdNum == 3

ThresholdDen == 4

is_squarish(ch, x) ==
    LET r == squareness(ch, x)
    IN  IF r.res.tag = "err" THEN r
        ELSE [res |-> Ok(Gt(r.res.val, Real(ThresholdNum, ThresholdDen, 1))),
              cache |-> r.cache]

is_prime_max(ch, x) ==
    LET r == squarish_factors(ch, x)
    IN  IF r.res.tag = "err" THEN [res |-> r.res, cache |-> r.cache]
        ELSE [res |-> Ok(SetMax({r.res.val[1], r.res.val[2]}) = 1),
              cache |-> r.cache]

is_prime(ch, x) ==
    LET r == squarish_factors(ch, x)
    IN  IF r.res.tag = "err" THEN [res |-> r.res, cache |-> r.cache]
        ELSE [res |-> Ok(SetMin({r.res.val[1], r.res.val[2]}) = 1),
              cache |-> r.cache]

\* max(c, key=lambda x: squareness(x)): the first member with the greatest key
RECURSIVE max_loop(_, _, _, _, _)
max_loop(ch, c, i, best, bestKey) ==
    IF i > Len(c) THEN [res |-> Ok(best), cache |-> ch]
    ELSE LET r == squareness(ch, c[i])
         IN  IF r.res.tag = "err" THEN r
             ELSE IF Gt(r.res.val, bestKey)
                  THEN max_loop(r.cache, c, i + 1, c[i], r.res.val)
                  ELSE max_loop(r.cache, c, i + 1, best, bestKey)

max_by_squareness(ch, c) ==
    IF c = <<>> THEN [res |-> Raise("ValueError"), cache |-> ch]
    ELSE LET r == squareness(ch, c[1])
         IN  IF r.res.tag = "err" THEN r
             ELSE max_loop(r.cache, c, 2, c[1], r.res.val)

\* sorted(squares, key=None, reverse=reverse_on_key)[0]
sorted_first_ascending(s, reverse) == SetMin(SeqRange(s))

sorted_first(s, reverse) ==
    IF reverse THEN SetMax(SeqRange(s)) ELSE SetMin(SeqRange(s))

\* what a second traversal of c yields: nothing when c is an iterator
second_pass(c, oneShot) == IF oneShot THEN <<>> ELSE c

squarest_of(ch, c, oneShot, reverse_on_key) ==
    LET squares == SelectSeq(c, is_square)
    IN  IF squares # <<>>
        THEN [res |-> Ok(sorted_first(squares, reverse_on_key)), cache |-> ch]
        ELSE max_by_squareness(ch, second_pass(c, oneShot))

squarest_total_clamped(ch, m, n, return_greatest) ==
    squarest_of(ch, range(m, m + (IF n < 0 THEN 0 ELSE n) + 1), FALSE, return_greatest)

squarest_total(ch, m, n, return_greatest) ==
    squarest_of(ch, range(m, m + n + 1), FALSE, return_greatest)

----------------------------------------------------------------------------
(* arbitrary_ratios.py *)

fittest_of(ch, c, r, reverse_on_key) ==
    [res |-> Raise("NotImplementedError"), cache |-> ch]

fittest_total(ch, m, n, r, return_greatest) ==
    fittest_of(ch, range(m, m + n + 1), r, return_greatest)

----------------------------------------------------------------------------
(* The state machine *)

NoCall == [op |-> "none"]

Init ==
    /\ cache = <<>>
    /\ pc = "idle"
    /\ ret = NoCall

Return ==
    /\ pc = "returned"
    /\ pc' = "idle"
    /\ ret' = NoCall
    /\ UNCHANGED cache

CallSquarishFactors(x) ==
    /\ LET r == squarish_factors(cache, x)
       IN  /\ cache' = r.cache
           /\ ret' = [op |-> "squarish_factors", x |-> x, res |-> r.res,
                      hit |-> r.hit, evicted |-> r.evicted]
    /\ pc' = "returned"

CallSquareness(x) ==
    /\ LET r == squareness(cache, x)
       IN  /\ cache' = r.cache
           /\ ret' = [op |-> "squareness", x |-> x, res |-> r.res]
    /\ pc' = "returned"

CallIsSquarish(x) ==
    /\ LET r == is_squarish(cache, x)
       IN  /\ cache' = r.cache
           /\ ret' = [op |-> "is_squarish", x |-> x, res |-> r.res]
    /\ pc' = "returned"

CallIsSquare(x) ==
    /\ ret' = [op |-> "is_square", x |-> x, res |-> Ok(is_square(x))]
    /\ pc' = "returned"
    /\ UNCHANGED cache

CallIsPrime(x) ==
    /\ LET r == is_prime(cache, x)
       IN  /\ cache' = r.cache
           /\ ret' = [op |-> "is_prime", x |-> x, res |-> r.res]
    /\ pc' = "returned"

CallSquarestOf(c, oneShot, reverse) ==
    /\ LET r == squarest_of(cache, c, oneShot, reverse)
       IN  /\ cache' = r.cache
           /\ ret' = [op |-> "squarest_of", c |-> c, oneShot |-> oneShot,
                      reverse |-> reverse, res |-> r.res]
    /\ pc' = "returned"

CallSquarestTotal(m, n, rg) ==
    /\ LET r == squarest_total(cache, m, n, rg)
       IN  /\ cache' = r.cache
           /\ ret' = [op |-> "squarest_total", m |-> m, n |-> n,
                      rg |-> rg, res |-> r.res]
    /\ pc' = "returned"

CallFittestTotal(m, n, r, rg) ==
    /\ LET o == fittest_total(cache, m, n, r, rg)
       IN  /\ cache' = o.cache
           /\ ret' = [op |-> "fittest_total", m |-> m, n |-> n, r |-> r,
                      rg |-> rg, res |-> o.res]
    /\ pc' = "returned"

\* sequences over S of length at most k
SeqsUpTo(S, k) == UNION {[1..l -> S] : l \in 0..k}

XDom == (0 - MaxNeg)..MaxX

Ratios == (1..MaxR) \X (1..MaxR)

\* the scalar operations and the cache
Next ==
    \/ /\ pc = "idle"
       /\ \/ \E x \in XDom : CallSquarishFactors(x)
          \/ \E x \in XDom : CallSquareness(x)
          \/ \E x \in XDom : CallIsSquarish(x)
          \/ \E x \in XDom : CallIsSquare(x)
          \/ \E x \in XDom : CallIsPrime(x)
    \/ Return

Spec == Init /\ [][Next]_vars

\* the selectors
Collections == SeqsUpTo(0..MaxElem, MaxLen)

NextSelect ==
    \/ /\ pc = "idle"
       /\ \/ \E c \in Collections, oneShot \in BOOLEAN, reverse \in BOOLEAN :
                CallSquarestOf(c, oneShot, reverse)
          \/ \E m \in 0..MaxM, n \in (0 - MaxNeg)..MaxN, rg \in BOOLEAN :
                CallSquarestTotal(m, n, rg)
          \/ \E m \in 0..MaxM, n \in (0 - MaxNeg)..MaxN, r \in Ratios, rg \in BOOLEAN :
                CallFittestTotal(m, n, r, rg)
    \/ Return

SpecSelect == Init /\ [][NextSelect]_vars

\* every operation, with arguments around the edge of its precondition
PreDom == (0 - MaxNeg)..MaxNeg

NextPre ==
    \/ /\ pc = "idle"
       /\ \/ \E x \in PreDom : CallSquarishFactors(x)
          \/ \E x \in PreDom : CallSquareness(x)
          \/ \E x \in PreDom : CallIsSquarish(x)
          \/ \E x \in PreDom : CallIsSquare(x)
          \/ \E x \in PreDom : CallIsPrime(x)
          \/ \E c \in SeqsUpTo(PreDom, MaxLen), oneShot \in BOOLEAN, reverse \in BOOLEAN :
                CallSquarestOf(c, oneShot, reverse)
          \/ \E m \in PreDom, n \in PreDom, rg \in BOOLEAN :
                CallSquarestTotal(m, n, rg)
    \/ Return

SpecPre == Init /\ [][NextPre]_vars

----------------------------------------------------------------------------
(* Properties of the scalar operations (Spec) *)

IsPerfectSquare(x) == \E k \in 0..x : k * k = x

Returned(op) == pc = "returned" /\ ret.op = op

C10_CacheTransparent ==
    /\ Returned("squarish_factors") =>
          LET u == squarish_factors_wrapped(ret.x)
          IN  /\ ret.res.tag = u.tag
              /\ ret.res.tag = "ok" => ret.res.val = u.val
    /\ \A i \in 1..Len(cache) :
          LET u == squarish_factors_wrapped(cache[i].key)
          IN  /\ cache[i].key >= 0
              /\ u.tag = "ok"
              /\ u.val = cache[i].val
    /\ \A i \in 1..Len(cache), j \in 1..Len(cache) :
          i # j => cache[i].key # cache[j].key
    /\ Len(cache) <= CacheSize

\* a hit on a full cache
C10_Witness ==
    /\ Returned("squarish_factors")
    /\ ret.hit
    /\ ret.x > CacheSize
    /\ Len(cache) = CacheSize
    /\ cache[Len(cache)].key = ret.x
    /\ ret.res.tag = "ok"
    /\ ret.res.val = squarish_factors_wrapped(ret.x).val

----------------------------------------------------------------------------
(* Properties of the selectors (SpecSelect) *)

\* the squareness of y, computed without a cache
SqVal(y) == squareness(<<>>, y).res.val

\* the members of S whose squareness no member of S exceeds
Squarest(S) == {y \in S : \A z \in S : ~Gt(SqVal(z), SqVal(y))}

SquaresIn(S) == {y \in S : IsPerfectSquare(y)}

C3_WitnessNoSquare ==
    /\ Returned("squarest_total")
    /\ ret.n >= 1
    /\ SquaresIn(ret.m..(ret.m + ret.n)) = {}
    /\ ret.res.tag = "ok"

\* C4: for every non-empty collection c of positive integers, squarest_of(c)
\* returns, among the members of c of maximal squareness, the smallest one
\* when reverse_on_key is false and the largest one when it is true,
\* whatever the order of c and whether or not c holds a perfect square.
C4_TieBreakByValue ==
    (/\ Returned("squarest_of")
     /\ ~ret.oneShot
     /\ ret.c # <<>>
     /\ \A i \in 1..Len(ret.c) : ret.c[i] >= 1) =>
        /\ ret.res.tag = "ok"
        /\ ret.res.val = IF ret.reverse THEN SetMax(Squarest(SeqRange(ret.c)))
                                          ELSE SetMin(Squarest(SeqRange(ret.c)))

\* C5: for every non-empty finite iterable c of non-negative integers, one
\* that can be traversed only once included, squarest_of(c) does not fail and
\* returns a member of c.
C5_ReturnsMember ==
    (/\ Returned("squarest_of")
     /\ ret.c # <<>>
     /\ \A i \in 1..Len(ret.c) : ret.c[i] >= 0) =>
        /\ ret.res.tag = "ok"
        /\ ret.res.val \in SeqRange(ret.c)

\* C6: for all m >= 1, n >= 0 and every ratio r > 0, fittest_total(m, n, r)
\* returns a single integer in the closed interval [m, m+n].
C6_FittestTotalInRange ==
    (Returned("fittest_total") /\ ret.m >= 1 /\ ret.n >= 0) =>
        /\ ret.res.tag = "ok"
        /\ ret.res.val \in ret.m..(ret.m + ret.n)

----------------------------------------------------------------------------
(* Preconditions (SpecPre) *)

====
